---- MODULE Spec2Model ----
(***************************************************************************)
(* Model of edupage_mcp/server.py: the session registry (_sessions), the   *)
(* login tools that fill it, the session lookups, the fan-out executor     *)
(* _for_all_sessions and the cross-session student resolver.               *)
(*                                                                         *)
(* The server runs its tools one after the other (synchronous handlers),   *)
(* so every tool call is one atomic action.  A call's inputs and backend   *)
(* answers are drawn with \E and kept in `call`; what it returned or       *)
(* raised is kept in `ret`.                                                *)
(***************************************************************************)
EXTENDS Naturals, Sequences, FiniteSets

VARIABLES
    _sessions,  \* the dict _sessions: a sequence of [id, edu] in insertion order
    nextEdu,    \* number of api.Edupage() objects created so far (object identity)
    started,    \* FALSE until main() has run _try_env_login
    call,       \* the last operation with its inputs
    ret         \* what the last operation returned or raised

vars == <<_sessions, nextEdu, started, call, ret>>

\* ------------------------------------------------------------------ bounds

\* Edupage() objects the model lets the process create.
MaxEdu == 3
\* Largest number of items one backend fetch returns.
MaxItems == 2

\* ------------------------------------------------------------- python dict

\* d.keys(), in insertion order
Keys(d) == [i \in 1..Len(d) |-> d[i].id]

\* k in d
Has(d, k) == \E i \in 1..Len(d) : d[i].id = k

\* d[k]
Get(d, k) == d[CHOOSE i \in 1..Len(d) : d[i].id = k].edu

\* A dict store that never looks for the key.
DictSetAppend(d, k, v) == Append(d, [id |-> k, edu |-> v])

\* d[k] = v: replaces the value in place when k is present, appends otherwise
DictSet(d, k, v) ==
    IF Has(d, k)
    THEN [i \in 1..Len(d) |-> IF d[i].id = k THEN [id |-> k, edu |-> v] ELSE d[i]]
    ELSE Append(d, [id |-> k, edu |-> v])

\* ", ".join(...) keeps the elements and their order
Join(seq) == seq

NoSchool == ""

\* ------------------------------------------------------------ the results

\* a value returned
Ok(v) == [kind |-> "ok", value |-> v]

\* RuntimeError("Not logged in. Call the 'login' tool ...")
NotAuthenticated == [kind |-> "NotAuthenticated"]

\* "School '<school>' not found. Available: <ids>"
SessionNotFound(school, available) ==
    [kind |-> "SessionNotFound", school |-> school, available |-> available]

\* RuntimeError("Multiple schools connected (<ids>). Specify the 'school' parameter.")
AmbiguousSession(available) ==
    [kind |-> "AmbiguousSession", available |-> available]

\* ---------------------------------------------------------- session lookup

\* A lookup that falls back to the first session for an unknown school.
_get_session_fallback(sessions, school) ==
    IF sessions = <<>> THEN NotAuthenticated
    ELSE IF school # NoSchool /\ Has(sessions, school) THEN Ok(Get(sessions, school))
    ELSE IF Len(sessions) = 1 \/ school # NoSchool THEN Ok(sessions[1].edu)
    ELSE AmbiguousSession(Join(Keys(sessions)))

_get_session(sessions, school) ==
    IF sessions = <<>> THEN NotAuthenticated
    ELSE IF school # NoSchool
         THEN IF ~Has(sessions, school)
              THEN SessionNotFound(school, Join(Keys(sessions)))
              ELSE Ok(Get(sessions, school))
    ELSE IF Len(sessions) = 1 THEN Ok(sessions[1].edu)
    ELSE AmbiguousSession(Join(Keys(sessions)))

\* A lookup of the whole table that forgets the emptiness test.
_get_all_sessions_unchecked(sessions) == Ok(sessions)

_get_all_sessions(sessions) ==
    IF sessions = <<>> THEN NotAuthenticated ELSE Ok(sessions)

_is_multi_school(sessions) == Len(sessions) > 1

\* -------------------------------------------------------------------- login

\* what edu.login / edu.login_auto does: returns, or raises one of these
LoginOutcomes == {"ok", "BadCredentialsException", "ConnectionError"}

\* effective username and password (argument or environment variable)
Credentials ==
    { [username |-> "u", password |-> "p"],
      [username |-> "",  password |-> "p"] }

\* A subdomain argument is the sequence of its comma-separated pieces, each
\* already stripped; <<>> is the empty string.
SubdomainInputs(U) ==
    {<<>>} \cup {<<x>> : x \in U \cup {""}} \cup {<<x, y>> : x, y \in U \cup {""}}

\* [s.strip() for s in subdomain.split(",") if s.strip()]
SplitSubdomains(raw) == SelectSeq(raw, LAMBDA t : t # "")

\* the missing-variable list of login and login_auto
Missing(cred, raw) ==
    SelectSeq(<<[n |-> "EDUPAGE_USERNAME", v |-> cred.username # ""],
                [n |-> "EDUPAGE_PASSWORD", v |-> cred.password # ""],
                [n |-> "EDUPAGE_SUBDOMAIN", v |-> raw # <<>>]>>,
              LAMBDA e : ~e.v)

\* The text login records for a failed subdomain.
FailureText(out) ==
    IF out = "BadCredentialsException" THEN "wrong credentials"
    ELSE IF out = "CaptchaException" THEN "CAPTCHA requested"
    ELSE out

\* A turn of the loop that forgets the stored session when the login fails.
LoginStepForgetOnFailure(st, sub, out) ==
    LET edu == st.next + 1 IN
    IF out = "ok"
    THEN [st EXCEPT !.next = edu,
                    !.edus = Append(@, edu),
                    !.sessions = DictSet(@, sub, edu),
                    !.successes = Append(@, sub)]
    ELSE [st EXCEPT !.next = edu,
                    !.edus = Append(@, edu),
                    !.sessions = SelectSeq(@, LAMBDA e : e.id # sub),
                    !.failures = Append(@, <<sub, FailureText(out)>>)]

\* One turn of the loop `for sub in subdomains` of login and _try_env_login:
\* a new Edupage object, the backend login, the store on success.
LoginStep(st, sub, out) ==
    LET edu == st.next + 1 IN
    IF out = "ok"
    THEN [st EXCEPT !.next = edu,
                    !.edus = Append(@, edu),
                    !.sessions = DictSet(@, sub, edu),
                    !.successes = Append(@, sub)]
    ELSE [st EXCEPT !.next = edu,
                    !.edus = Append(@, edu),
                    !.failures = Append(@, <<sub, FailureText(out)>>)]

RECURSIVE LoginLoop(_, _, _, _)
LoginLoop(subdomains, outs, i, st) ==
    IF i > Len(subdomains) THEN st
    ELSE LoginLoop(subdomains, outs, i + 1, LoginStep(st, subdomains[i], outs[i]))

LoginStart(sessions, next) ==
    [sessions |-> sessions, next |-> next, edus |-> <<>>,
     successes |-> <<>>, failures |-> <<>>]

\* sub = getattr(edu, "subdomain", None) or "auto"
DetectedSubdomain(detected) == IF detected = "" THEN "auto" ELSE detected

\* ------------------------------------------------------------------ fan-out

\* str(e) of the exceptions a backend fetch raises
FetchErrors == {"ConnectionError", "TimeoutError"}

\* the payloads of a list of n items, in the order the backend returns them
Payloads(n) == [i \in 1..n |-> n + 1 - i]

\* What fn(edu) does for one session: raises err, or returns items.
FetchOutcomes ==
    {[raise |-> TRUE, err |-> e, items |-> <<>>] : e \in FetchErrors}
    \cup {[raise |-> FALSE, err |-> "", items |-> Payloads(n)] : n \in 0..MaxItems}

\* an item dict without a 'school' key
Absent == "<absent>"

\* the list fn(edu) returns for session sub
Items(sub, out) ==
    [i \in 1..Len(out.items) |-> [src |-> sub, n |-> out.items[i], school |-> Absent]]

\* RuntimeError(f"All schools failed: {errors}")
AllSessionsFailed(errors) == [kind |-> "AllSessionsFailed", errors |-> errors]

\* for item in results: item["school"] = sub  (only when multi)
Tag(results, sub, multi) ==
    IF multi THEN [i \in 1..Len(results) |-> [results[i] EXCEPT !.school = sub]]
    ELSE results

\* A multi test that forgets the school argument.
IsMultiIgnoringSchool(sessions, school) == _is_multi_school(sessions)

\* multi = _is_multi_school() and not school
IsMulti(sessions, school) == _is_multi_school(sessions) /\ school = NoSchool

\* A loop body that puts the newest results first.
ForAllStepPrepend(acc, sub, out, multi) ==
    IF out.raise
    THEN [acc EXCEPT !.calls = Append(@, sub),
                     !.errors = Append(@, [school |-> sub, error |-> out.err])]
    ELSE [acc EXCEPT !.calls = Append(@, sub),
                     !.merged = Tag(Items(sub, out), sub, multi) \o @]

\* A loop body that keeps only the latest error.
ForAllStepLastError(acc, sub, out, multi) ==
    IF out.raise
    THEN [acc EXCEPT !.calls = Append(@, sub),
                     !.errors = <<[school |-> sub, error |-> out.err]>>]
    ELSE [acc EXCEPT !.calls = Append(@, sub),
                     !.merged = @ \o Tag(Items(sub, out), sub, multi)]

\* The body of `for sub, edu in sessions.items()`: the try block, the except.
ForAllStep(acc, sub, out, multi) ==
    IF out.raise
    THEN [acc EXCEPT !.calls = Append(@, sub),
                     !.errors = Append(@, [school |-> sub, error |-> out.err])]
    ELSE [acc EXCEPT !.calls = Append(@, sub),
                     !.merged = @ \o Tag(Items(sub, out), sub, multi)]

\* A loop that an exception ends.
RECURSIVE ForAllLoopBreak(_, _, _, _, _)
ForAllLoopBreak(targets, fetch, multi, i, acc) ==
    IF i > Len(targets) \/ acc.errors # <<>> THEN acc
    ELSE ForAllLoopBreak(targets, fetch, multi, i + 1,
                         ForAllStep(acc, targets[i].id, fetch[targets[i].id], multi))

RECURSIVE ForAllLoop(_, _, _, _, _)
ForAllLoop(targets, fetch, multi, i, acc) ==
    IF i > Len(targets) THEN acc
    ELSE ForAllLoop(targets, fetch, multi, i + 1,
                    ForAllStep(acc, targets[i].id, fetch[targets[i].id], multi))

\* if not merged and errors: raise ...; return merged
ForAllFinish(acc) ==
    IF acc.merged = <<>> /\ acc.errors # <<>>
    THEN AllSessionsFailed(acc.errors)
    ELSE Ok(acc.merged)

\* _for_all_sessions(fn, school): what it returns or raises (out) and the
\* sessions fn was called on, in call order (calls).
_for_all_sessions(sessions, fetch, school) ==
    LET all == _get_all_sessions(sessions) IN
    IF all.kind # "ok" THEN [out |-> all, calls |-> <<>>]
    ELSE IF school # NoSchool /\ ~Has(all.value, school)
    THEN [out |-> SessionNotFound(school, Join(Keys(all.value))), calls |-> <<>>]
    ELSE LET targets == IF school # NoSchool
                        THEN <<[id |-> school, edu |-> Get(all.value, school)]>>
                        ELSE all.value
             acc == ForAllLoop(targets, fetch, IsMulti(sessions, school), 1,
                               [merged |-> <<>>, errors |-> <<>>, calls |-> <<>>])
         IN  [out |-> ForAllFinish(acc), calls |-> acc.calls]

\* ------------------------------------------------------- student resolution

\* Display names and queries are sequences of characters.
Jan  == <<"J", "a", "n">>
Jana == <<"J", "a", "n", "a">>
Janka == <<"J", "a", "n", "k", "a">>
Eva  == <<"E", "v", "a">>

\* the student lists a session's backend may hold
Rosters ==
    {<<>>, <<Jan>>, <<Jana>>, <<Jan, Jana>>, <<Jana, Eva>>, <<Jana, Janka>>, <<Eva>>}

\* the names asked for
Queries == {<<"j", "a", "n">>, <<"A", "n">>}

\* How edu.get_students() behaves during one resolution: "ok" returns the
\* list on every call, "down" raises on every call, "flaky" returns on the
\* first call and raises on the second.
Listings == {"ok", "down", "flaky"}

\* str.lower() on one character
LowerChar(c) ==
    CASE c = "J" -> "j"
      [] c = "A" -> "a"
      [] c = "N" -> "n"
      [] c = "E" -> "e"
      [] c = "V" -> "v"
      [] OTHER -> c

\* str.lower()
Lower(str) == [i \in 1..Len(str) |-> LowerChar(str[i])]

\* a in b, for strings
Contains(b, a) ==
    \E i \in 0..(Len(b) - Len(a)) : SubSeq(b, i + 1, i + Len(a)) = a

\* None, for a student
NoStudent == <<>>

\* the error texts of _resolve_student
NoStudentsFound == [kind |-> "NoStudents"]
AmbiguousWithin(name, matches) ==
    [kind |-> "AmbiguousWithin", name |-> name, matches |-> matches]
NotFoundInSession(name, available) ==
    [kind |-> "NotFoundInSession", name |-> name, available |-> available]
NoError == [kind |-> "none"]

\* the `for s in students` loop of the exact match: the first student whose
\* lowered name equals the lowered query
ExactMatches(students, name) ==
    SelectSeq(students, LAMBDA n : Lower(n) = Lower(name))

\* A substring match that compares the names as they are written.
SubstringMatchesCaseSensitive(students, name) ==
    SelectSeq(students, LAMBDA n : Contains(n, name))

\* matches = [s for s in students if name_lower in s.name.lower()]
SubstringMatches(students, name) ==
    SelectSeq(students, LAMBDA n : Contains(Lower(n), Lower(name)))

\* A resolution that tries the substring match first.
_resolve_student_substring_first(students, listing, name) ==
    IF listing = "down"
    THEN [raised |-> TRUE, student |-> NoStudent, err |-> NoError]
    ELSE IF students = <<>>
    THEN [raised |-> FALSE, student |-> NoStudent, err |-> NoStudentsFound]
    ELSE LET matches == SubstringMatches(students, name) IN
         IF Len(matches) = 1
         THEN [raised |-> FALSE, student |-> matches[1], err |-> NoError]
         ELSE IF Len(matches) > 1
         THEN [raised |-> FALSE, student |-> NoStudent,
               err |-> AmbiguousWithin(name, matches)]
         ELSE [raised |-> FALSE, student |-> NoStudent,
               err |-> NotFoundInSession(name, students)]

\* _resolve_student(edu, student_name): (student, error_msg), or the
\* exception of edu.get_students()
_resolve_student(students, listing, name) ==
    IF listing = "down"
    THEN [raised |-> TRUE, student |-> NoStudent, err |-> NoError]
    ELSE IF students = <<>>
    THEN [raised |-> FALSE, student |-> NoStudent, err |-> NoStudentsFound]
    ELSE IF ExactMatches(students, name) # <<>>
    THEN [raised |-> FALSE, student |-> ExactMatches(students, name)[1],
          err |-> NoError]
    ELSE LET matches == SubstringMatches(students, name) IN
         IF Len(matches) = 1
         THEN [raised |-> FALSE, student |-> matches[1], err |-> NoError]
         ELSE IF Len(matches) > 1
         THEN [raised |-> FALSE, student |-> NoStudent,
               err |-> AmbiguousWithin(name, matches)]
         ELSE [raised |-> FALSE, student |-> NoStudent,
               err |-> NotFoundInSession(name, students)]

\* the results of _resolve_student_across_sessions
Resolved(edu, student) == [kind |-> "ok", edu |-> edu, student |-> student]
AmbiguousAcross(name, schools) ==
    [kind |-> "AmbiguousAcross", name |-> name, schools |-> schools]
NotFound(name, available) ==
    [kind |-> "NotFound", name |-> name, available |-> available]
BackendError == [kind |-> "BackendError"]

\* A loop body that puts the newest diagnostics first.
ResolveStepPrepend(acc, sess, backend, name) ==
    IF acc.raised THEN acc
    ELSE LET sub == sess.id
             r == _resolve_student(backend.students, backend.listing, name) IN
         IF r.raised
         THEN [acc EXCEPT !.raised = TRUE, !.calls = Append(@, sub)]
         ELSE IF r.student # NoStudent
         THEN [acc EXCEPT !.calls = Append(@, sub),
                          !.found = Append(@, [sub |-> sub, edu |-> sess.edu,
                                               student |-> r.student])]
         ELSE IF backend.listing = "flaky"
         THEN [acc EXCEPT !.calls = @ \o <<sub, sub>>]
         ELSE [acc EXCEPT !.calls = @ \o <<sub, sub>>,
                          !.all_students =
                              [i \in 1..Len(backend.students) |->
                                  <<sub, backend.students[i]>>] \o @]

\* The body of `for sub, edu in sessions.items()` of the resolver.  An
\* exception of _resolve_student leaves the function (raised); one of the
\* second get_students is passed over.
ResolveStep(acc, sess, backend, name) ==
    IF acc.raised THEN acc
    ELSE LET sub == sess.id
             r == _resolve_student(backend.students, backend.listing, name) IN
         IF r.raised
         THEN [acc EXCEPT !.raised = TRUE, !.calls = Append(@, sub)]
         ELSE IF r.student # NoStudent
         THEN [acc EXCEPT !.calls = Append(@, sub),
                          !.found = Append(@, [sub |-> sub, edu |-> sess.edu,
                                               student |-> r.student])]
         ELSE IF backend.listing = "flaky"
         THEN [acc EXCEPT !.calls = @ \o <<sub, sub>>]
         ELSE [acc EXCEPT !.calls = @ \o <<sub, sub>>,
                          !.all_students = @ \o
                              [i \in 1..Len(backend.students) |->
                                  <<sub, backend.students[i]>>]]

\* A loop that stops at the first session in which the name resolved.
RECURSIVE ResolveLoopStopAtFound(_, _, _, _, _)
ResolveLoopStopAtFound(targets, backend, name, i, acc) ==
    IF i > Len(targets) \/ acc.found # <<>> THEN acc
    ELSE ResolveLoopStopAtFound(targets, backend, name, i + 1,
                     ResolveStep(acc, targets[i], backend[targets[i].id], name))

RECURSIVE ResolveLoop(_, _, _, _, _)
ResolveLoop(targets, backend, name, i, acc) ==
    IF i > Len(targets) THEN acc
    ELSE ResolveLoop(targets, backend, name, i + 1,
                     ResolveStep(acc, targets[i], backend[targets[i].id], name))

\* A way out that takes the first session when several resolved the name.
ResolveFinishPickFirst(acc, name) ==
    IF acc.raised THEN BackendError
    ELSE IF Len(acc.found) >= 1 THEN Resolved(acc.found[1].edu, acc.found[1].student)
    ELSE NotFound(name, Join(acc.all_students))

\* the three ways out after the loop
ResolveFinish(acc, name) ==
    IF acc.raised THEN BackendError
    ELSE IF Len(acc.found) = 1 THEN Resolved(acc.found[1].edu, acc.found[1].student)
    ELSE IF Len(acc.found) > 1
    THEN AmbiguousAcross(name, Join([i \in 1..Len(acc.found) |-> acc.found[i].sub]))
    ELSE NotFound(name, Join(acc.all_students))

\* A resolver that searches every session whatever the school argument.
_resolve_student_across_sessions_all(sessions, backend, name, school) ==
    LET all == _get_all_sessions(sessions) IN
    IF all.kind # "ok" THEN [out |-> all, calls |-> <<>>]
    ELSE IF school # NoSchool /\ ~Has(all.value, school)
    THEN [out |-> SessionNotFound(school, Join(Keys(all.value))), calls |-> <<>>]
    ELSE LET acc == ResolveLoop(all.value, backend, name, 1,
                                [found |-> <<>>, all_students |-> <<>>,
                                 calls |-> <<>>, raised |-> FALSE])
         IN  [out |-> ResolveFinish(acc, name), calls |-> acc.calls]

\* _resolve_student_across_sessions(student_name, school): what it returns
\* or raises (out) and the sessions get_students was called on (calls).
_resolve_student_across_sessions(sessions, backend, name, school) ==
    LET all == _get_all_sessions(sessions) IN
    IF all.kind # "ok" THEN [out |-> all, calls |-> <<>>]
    ELSE IF school # NoSchool /\ ~Has(all.value, school)
    THEN [out |-> SessionNotFound(school, Join(Keys(all.value))), calls |-> <<>>]
    ELSE LET targets == IF school # NoSchool
                        THEN <<[id |-> school, edu |-> Get(all.value, school)]>>
                        ELSE all.value
             acc == ResolveLoop(targets, backend, name, 1,
                                [found |-> <<>>, all_students |-> <<>>,
                                 calls |-> <<>>, raised |-> FALSE])
         IN  [out |-> ResolveFinish(acc, name), calls |-> acc.calls]

\* ------------------------------------------------------------- the actions

\* the subdomains the login tool and the environment name
Subdomains == {"a", "b"}

\* what the portal login detects: a subdomain, or none ("")
Detected == {"a", ""}

\* every id a session can be stored under
SchoolIds == Subdomains \cup {DetectedSubdomain(d) : d \in Detected}

\* no request is being served
Idle == [op |-> "idle"]
NoReply == [out |-> [kind |-> "none"], calls |-> <<>>]

Init ==
    /\ _sessions = <<>>
    /\ nextEdu = 0
    /\ started = FALSE
    /\ call = Idle
    /\ ret = NoReply

\* the registry and the object count after the login loop, and the reply
LoginDone(op, cred, raw, outs) ==
    LET st == LoginLoop(SplitSubdomains(raw), outs, 1, LoginStart(_sessions, nextEdu)) IN
    /\ _sessions' = st.sessions
    /\ nextEdu' = st.next
    /\ call' = [op |-> op, cred |-> cred, raw |-> raw, outs |-> outs]
    /\ ret' = [out |-> [kind |-> IF st.successes = <<>> THEN "error" ELSE "ok",
                        successes |-> st.successes,
                        failures |-> st.failures,
                        edus |-> st.edus],
               calls |-> <<>>]

\* the portal login: one new object, stored under the detected subdomain
LoginAutoDone(op, cred, out, detected) ==
    LET edu == nextEdu + 1
        sub == DetectedSubdomain(detected) IN
    /\ nextEdu' = edu
    /\ _sessions' = IF out = "ok" THEN DictSet(_sessions, sub, edu) ELSE _sessions
    /\ call' = [op |-> op, cred |-> cred, out |-> out, detected |-> detected]
    /\ ret' = [out |-> IF out = "ok"
                       THEN [kind |-> "ok", sub |-> sub, edu |-> edu]
                       ELSE [kind |-> "error", detail |-> out],
               calls |-> <<>>]

\* a reply that leaves the registry alone
Reply(c, r) ==
    /\ call' = c
    /\ ret' = r
    /\ UNCHANGED <<_sessions, nextEdu>>

\* main(): _try_env_login() before the server takes requests
TryEnvLogin ==
    /\ ~started
    /\ call = Idle
    /\ started' = TRUE
    /\ \E cred \in Credentials, raw \in SubdomainInputs(Subdomains) :
         IF cred.username # "" /\ cred.password # "" /\ raw # <<>>
         THEN /\ nextEdu + Len(SplitSubdomains(raw)) <= MaxEdu
              /\ \E outs \in [1..Len(SplitSubdomains(raw)) -> LoginOutcomes] :
                   LoginDone("_try_env_login", cred, raw, outs)
         ELSE IF cred.username # "" /\ cred.password # ""
         THEN /\ nextEdu + 1 <= MaxEdu
              /\ \E out \in LoginOutcomes, detected \in Detected :
                   LoginAutoDone("_try_env_login", cred, out, detected)
         ELSE Reply([op |-> "_try_env_login", cred |-> cred, raw |-> raw],
                    [out |-> [kind |-> "none"], calls |-> <<>>])

\* the tool login(username, password, subdomain)
Login ==
    /\ started
    /\ call = Idle
    /\ UNCHANGED started
    /\ \E cred \in Credentials, raw \in SubdomainInputs(Subdomains) :
         IF Missing(cred, raw) # <<>>
         THEN Reply([op |-> "login", cred |-> cred, raw |-> raw],
                    [out |-> [kind |-> "error", missing |-> Missing(cred, raw)],
                     calls |-> <<>>])
         ELSE /\ nextEdu + Len(SplitSubdomains(raw)) <= MaxEdu
              /\ \E outs \in [1..Len(SplitSubdomains(raw)) -> LoginOutcomes] :
                   LoginDone("login", cred, raw, outs)

\* the tool login_auto(username, password)
LoginAuto ==
    /\ started
    /\ call = Idle
    /\ UNCHANGED started
    /\ \E cred \in Credentials :
         IF Missing(cred, <<"-">>) # <<>>
         THEN Reply([op |-> "login_auto", cred |-> cred],
                    [out |-> [kind |-> "error", missing |-> Missing(cred, <<"-">>)],
                     calls |-> <<>>])
         ELSE /\ nextEdu + 1 <= MaxEdu
              /\ \E out \in LoginOutcomes, detected \in Detected :
                   LoginAutoDone("login_auto", cred, out, detected)

\* a call of _get_session(school)
GetSession ==
    /\ started
    /\ call = Idle
    /\ UNCHANGED started
    /\ \E school \in SchoolIds \cup {NoSchool} :
         Reply([op |-> "_get_session", school |-> school],
               [out |-> _get_session(_sessions, school), calls |-> <<>>])

\* a call of _get_all_sessions()
GetAllSessions ==
    /\ started
    /\ call = Idle
    /\ UNCHANGED started
    /\ Reply([op |-> "_get_all_sessions"],
             [out |-> _get_all_sessions(_sessions), calls |-> <<>>])

\* the sessions a call with this school argument can reach
Reachable(school) ==
    {id \in SchoolIds : Has(_sessions, id) /\ (school = NoSchool \/ school = id)}

\* a call of _for_all_sessions(fn, school); fetch is what fn does per session
ForAllSessions ==
    /\ started
    /\ call = Idle
    /\ UNCHANGED started
    /\ \E school \in SchoolIds \cup {NoSchool} :
         \E fetch \in [Reachable(school) -> FetchOutcomes] :
           Reply([op |-> "_for_all_sessions", school |-> school, fetch |-> fetch],
                 _for_all_sessions(_sessions, fetch, school))

\* a call of _resolve_student_across_sessions(student_name, school); backend
\* is what each session's get_students does
ResolveStudent ==
    /\ started
    /\ call = Idle
    /\ UNCHANGED started
    /\ \E school \in SchoolIds \cup {NoSchool}, name \in Queries :
         \E backend \in [Reachable(school) -> [students : Rosters, listing : Listings]] :
           Reply([op |-> "_resolve_student_across_sessions", school |-> school,
                  name |-> name, backend |-> backend],
                 _resolve_student_across_sessions(_sessions, backend, name, school))

\* a call of _resolve_student(edu, student_name) on one registered session;
\* students and listing are what that session's get_students does
ResolveInSession ==
    /\ started
    /\ call = Idle
    /\ UNCHANGED started
    /\ \E i \in 1..Len(_sessions), students \in Rosters,
          listing \in {"ok", "down"}, name \in Queries :
         LET r == _resolve_student(students, listing, name) IN
         Reply([op |-> "_resolve_student", school |-> _sessions[i].id,
                students |-> students, listing |-> listing, name |-> name],
               [out |-> [kind |-> IF r.raised THEN "BackendError"
                                  ELSE IF r.student # NoStudent THEN "ok"
                                  ELSE r.err.kind,
                         student |-> r.student, err |-> r.err],
                calls |-> <<_sessions[i].id>>])

\* The reply goes to the caller and the server waits for the next request;
\* nothing of the request is kept.
Respond ==
    /\ call # Idle
    /\ call' = Idle
    /\ ret' = NoReply
    /\ UNCHANGED <<_sessions, nextEdu, started>>

Next ==
    \/ TryEnvLogin
    \/ Login
    \/ LoginAuto
    \/ GetSession
    \/ GetAllSessions
    \/ ForAllSessions
    \/ ResolveStudent
    \/ ResolveInSession
    \/ Respond

Spec == Init /\ [][Next]_vars

\* a call of _resolve_student_across_sessions(student_name, school) with an
\* explicit school, while every registered session has students of its own;
\* the listing of a session other than the named one returns or raises
ResolveStudentScoped ==
    /\ started
    /\ call = Idle
    /\ UNCHANGED started
    /\ \E school \in SchoolIds, name \in Queries :
         \E backend \in [Reachable(NoSchool) -> [students : Rosters, listing : Listings]] :
           /\ \A id \in Reachable(NoSchool) :
                id # school => backend[id].listing # "flaky"
           /\ Reply([op |-> "_resolve_student_across_sessions", school |-> school,
                     name |-> name, backend |-> backend],
                    _resolve_student_across_sessions(_sessions, backend, name, school))

NextScoped ==
    \/ TryEnvLogin
    \/ Login
    \/ LoginAuto
    \/ ResolveStudentScoped
    \/ Respond

\* the logins and the resolver called with an explicit school
SpecScoped == Init /\ [][NextScoped]_vars

\* a call of _resolve_student_across_sessions(student_name) with no school;
\* every session's get_students returns on every call or raises on every
\* call
ResolveStudentUnscoped ==
    /\ started
    /\ call = Idle
    /\ UNCHANGED started
    /\ \E name \in Queries :
         \E backend \in [Reachable(NoSchool) -> [students : Rosters, listing : {"ok", "down"}]] :
           Reply([op |-> "_resolve_student_across_sessions", school |-> NoSchool,
                  name |-> name, backend |-> backend],
                 _resolve_student_across_sessions(_sessions, backend, name, NoSchool))

NextUnscoped ==
    \/ TryEnvLogin
    \/ Login
    \/ LoginAuto
    \/ ResolveStudentUnscoped
    \/ Respond

\* the logins and the resolver called without a school
SpecUnscoped == Init /\ [][NextUnscoped]_vars

\* ------------------------------------------------------- the timeline filter

\* Longest event list handed to the filter.
MaxEvents == 3
\* Largest limit and largest offset a caller passes.
MaxLimit == 2
MaxOffset == 1

_SYSTEM_EVENT_TYPES ==
    {"h_attendance", "h_vcelicka", "h_clearcache", "h_cleardbi",
     "h_clearisicdata", "h_clearplany", "h_contest", "h_dailyplan",
     "h_edusettings", "h_financie", "h_znamky", "h_homework",
     "h_igroups", "h_process", "h_processtypes", "h_settings",
     "h_substitution", "h_timetable", "h_userphoto",
     "strava_kredit", "strava_vydaj", "h_stravamenu", "pipnutie"}

\* the category table; the filter turns each list into a set
_EVENT_CATEGORIES ==
    [homework |-> {"homework", "etesthw"},
     grades |-> {"znamka", "znamkydoc"},
     exams |-> {"bexam", "sexam", "oexam", "rexam", "pexam", "testing"},
     messages |-> {"sprava"},
     absences |-> {"student_absent", "ospravedlnenka"},
     events |-> {"event", "schoolevent", "excursion", "trip", "culture",
                 "parentsevening", "meeting", "bmeeting"},
     news |-> {"news"}]

\* None, as the value of an attribute that is present
NoValue == [none |-> TRUE]

\* a datetime: a day of January 2024 and an hour of that day
Datetime(d, h) == [day |-> d, hour |-> h]

\* datetime.min
DatetimeMin == Datetime(0, 0)

\* datetime < datetime
Before(a, b) == a.day < b.day \/ (a.day = b.day /\ a.hour < b.hour)

\* an enum member of the backend's EventType
EventType(v) == [value |-> v]

\* The timeline events of the model.  An event is an object with attributes;
\* event 5 has no timestamp attribute, event 6 has one that is None.
Events ==
    {[id |-> 1, event_type |-> EventType("znamka"), timestamp |-> Datetime(3, 1),
      is_removed |-> FALSE, is_done |-> FALSE, is_starred |-> TRUE],
     [id |-> 2, event_type |-> EventType("sprava"), timestamp |-> Datetime(2, 2),
      is_removed |-> FALSE, is_done |-> TRUE, is_starred |-> FALSE],
     [id |-> 3, event_type |-> EventType("h_znamky"), timestamp |-> Datetime(2, 1),
      is_removed |-> FALSE, is_done |-> FALSE, is_starred |-> FALSE],
     [id |-> 4, event_type |-> EventType("znamka"), timestamp |-> Datetime(1, 1),
      is_removed |-> TRUE, is_done |-> TRUE, is_starred |-> TRUE],
     [id |-> 5, event_type |-> NoValue,
      is_removed |-> FALSE, is_done |-> FALSE, is_starred |-> FALSE],
     [id |-> 6, event_type |-> EventType("sprava"), timestamp |-> NoValue,
      is_removed |-> FALSE, is_done |-> TRUE, is_starred |-> TRUE]}

\* the lists of distinct events of at most n elements
EventListsOf(n) ==
    UNION {{s \in [1..k -> Events] : \A i, j \in 1..k : i # j => s[i] # s[j]} :
           k \in 0..n}

\* event_type.split(","): the fields of the comma-separated text
Split(text) ==
    CASE text = "znamka, sprava" -> <<"znamka", " sprava">>
      [] OTHER -> <<text>>

\* t.strip()
Strip(t) ==
    CASE t = " sprava" -> "sprava"
      [] OTHER -> t

\* datetime.strptime(text, "%Y-%m-%d").date(), as the day of January 2024
ParseDate(text) ==
    CASE text = "2024-01-02" -> 2
      [] text = "2024-01-03" -> 3

\* no date bound (None)
NoDate == 0

\* A type filter that takes the explicit list first.
TypeFilterListFirst(category, event_type) ==
    IF event_type # ""
    THEN {Strip(Split(event_type)[i]) : i \in 1..Len(Split(event_type))}
    ELSE IF category # "" /\ category \in DOMAIN _EVENT_CATEGORIES
    THEN _EVENT_CATEGORIES[category]
    ELSE {}

\* lines 381-385: the type filter, None when neither input gives one
NoTypeFilter == {}
TypeFilter(category, event_type) ==
    IF category # "" /\ category \in DOMAIN _EVENT_CATEGORIES
    THEN _EVENT_CATEGORIES[category]
    ELSE IF event_type # ""
    THEN {Strip(Split(event_type)[i]) : i \in 1..Len(Split(event_type))}
    ELSE NoTypeFilter

\* lines 388-389
DateBound(text) == IF text # "" THEN ParseDate(text) ELSE NoDate

\* lines 399-400 and 418-419: the raw type value of an event
TypeVal(e) ==
    IF "event_type" \in DOMAIN e /\ e.event_type # NoValue
    THEN e.event_type.value
    ELSE ""

\* A date range test that drops the events dated on a bound.
InDateRangeExclusive(e, dt_from, dt_to) ==
    IF "timestamp" \in DOMAIN e /\ e.timestamp # NoValue
    THEN /\ ~(dt_from # NoDate /\ e.timestamp.day <= dt_from)
         /\ ~(dt_to # NoDate /\ e.timestamp.day >= dt_to)
    ELSE TRUE

\* lines 424-430: the date range test; an event whose timestamp is absent or
\* None passes it
InDateRange(e, dt_from, dt_to) ==
    IF "timestamp" \in DOMAIN e /\ e.timestamp # NoValue
    THEN /\ ~(dt_from # NoDate /\ e.timestamp.day < dt_from)
         /\ ~(dt_to # NoDate /\ e.timestamp.day > dt_to)
    ELSE TRUE

\* does the event pass the type filter
PassesTypeFilter(e, type_filter) ==
    type_filter # NoTypeFilter => TypeVal(e) \in type_filter

\* A loop body that lets removed events through when system events are asked for.
KeepEventRemovedOnRequest(e, crit) ==
    /\ ~(~crit.include_system /\ e.is_removed)
    /\ ~(~crit.include_system /\ TypeVal(e) \in _SYSTEM_EVENT_TYPES)
    /\ ~(crit.status = "active" /\ e.is_done)
    /\ ~(crit.status = "done" /\ ~e.is_done)
    /\ ~(crit.starred = "yes" /\ ~e.is_starred)
    /\ ~(crit.starred = "no" /\ e.is_starred)
    /\ PassesTypeFilter(e, TypeFilter(crit.category, crit.event_type))
    /\ InDateRange(e, DateBound(crit.date_from), DateBound(crit.date_to))

\* A loop body that skips system events whatever include_system says.
KeepEventNeverSystem(e, crit) ==
    /\ ~e.is_removed
    /\ TypeVal(e) \notin _SYSTEM_EVENT_TYPES
    /\ ~(crit.status = "active" /\ e.is_done)
    /\ ~(crit.status = "done" /\ ~e.is_done)
    /\ ~(crit.starred = "yes" /\ ~e.is_starred)
    /\ ~(crit.starred = "no" /\ e.is_starred)
    /\ PassesTypeFilter(e, TypeFilter(crit.category, crit.event_type))
    /\ InDateRange(e, DateBound(crit.date_from), DateBound(crit.date_to))

\* lines 392-432: the body of the loop, TRUE when the event is appended
KeepEvent(e, crit) ==
    /\ ~e.is_removed
    /\ ~(~crit.include_system /\ TypeVal(e) \in _SYSTEM_EVENT_TYPES)
    /\ ~(crit.status = "active" /\ e.is_done)
    /\ ~(crit.status = "done" /\ ~e.is_done)
    /\ ~(crit.starred = "yes" /\ ~e.is_starred)
    /\ ~(crit.starred = "no" /\ e.is_starred)
    /\ PassesTypeFilter(e, TypeFilter(crit.category, crit.event_type))
    /\ InDateRange(e, DateBound(crit.date_from), DateBound(crit.date_to))

\* the list `filtered` after the loop
Survivors(events, crit) == SelectSeq(events, LAMBDA e : KeepEvent(e, crit))

\* line 436: the sort key; the default stands in only for a missing attribute
SortKey(e) == IF "timestamp" \in DOMAIN e THEN e.timestamp ELSE DatetimeMin

\* comparing the keys raises TypeError when one of them is None
SortRaises(filtered) ==
    /\ Len(filtered) >= 2
    /\ \E i \in 1..Len(filtered) : SortKey(filtered[i]) = NoValue

\* An insertion that only puts the element in front.
InsertInFront(sorted, e) == <<e>> \o sorted

\* the place of e in a list sorted newest first: behind every element that is
\* not older, so that equal keys keep their order
InsertNewestFirst(sorted, e) ==
    LET ahead == SelectSeq(sorted, LAMBDA x : ~Before(SortKey(x), SortKey(e)))
        behind == SelectSeq(sorted, LAMBDA x : Before(SortKey(x), SortKey(e))) IN
    ahead \o <<e>> \o behind

\* lines 435-438: list.sort(key=..., reverse=True), a stable sort
RECURSIVE SortNewestFirst(_)
SortNewestFirst(filtered) ==
    IF Len(filtered) <= 1 THEN filtered
    ELSE InsertNewestFirst(SortNewestFirst(SubSeq(filtered, 1, Len(filtered) - 1)),
                           filtered[Len(filtered)])

\* the smaller of two integers
Min(a, b) == IF a < b THEN a ELSE b

\* A slice that skips the offset and takes everything behind it.
SliceToEnd(sorted, offset, limit) == SubSeq(sorted, offset + 1, Len(sorted))

\* line 441: filtered[offset:offset + limit] for offset >= 0 and limit >= 0
Slice(sorted, offset, limit) ==
    SubSeq(sorted, offset + 1, Min(offset + limit, Len(sorted)))

\* the result of _filter_timeline_events: the page, or the sort's TypeError
_filter_timeline_events(events, crit) ==
    LET filtered == Survivors(events, crit) IN
    IF SortRaises(filtered)
    THEN [kind |-> "TypeError"]
    ELSE [kind |-> "ok",
          value |-> Slice(SortNewestFirst(filtered), crit.offset, crit.limit)]

\* the criteria a caller passes
Statuses == {"", "active", "done"}
Starreds == {"", "yes", "no"}

\* category and event_type: none, one of them, both, and an event_type
\* next to a category the table does not have
TypeInputs ==
    {<<"", "">>, <<"grades", "">>, <<"", "znamka, sprava">>,
     <<"grades", "znamka, sprava">>, <<"marks", "znamka, sprava">>}

\* date_from and date_to: none, one of them, both
DateInputs ==
    {<<"", "">>, <<"2024-01-03", "">>, <<"", "2024-01-02">>,
     <<"2024-01-02", "2024-01-02">>}

\* a call narrows by type or by date
TypeDateInputs ==
    {td \in TypeInputs \X DateInputs : td[1] = <<"", "">> \/ td[2] = <<"", "">>}

Criteria ==
    {[include_system |-> sys, status |-> st, starred |-> sr,
      category |-> td[1][1], event_type |-> td[1][2],
      date_from |-> td[2][1], date_to |-> td[2][2],
      limit |-> limit, offset |-> offset] :
        sys \in BOOLEAN, st \in Statuses, sr \in Starreds,
        td \in TypeDateInputs,
        limit \in 0..MaxLimit, offset \in 0..MaxOffset}

\* a call of _filter_timeline_events(events, **criteria)
FilterEvents ==
    /\ call = Idle
    /\ UNCHANGED started
    /\ \E events \in EventListsOf(MaxEvents), crit \in Criteria :
         Reply([op |-> "_filter_timeline_events", events |-> events, crit |-> crit],
               [out |-> _filter_timeline_events(events, crit), calls |-> <<>>])

NextFilter ==
    \/ FilterEvents
    \/ Respond

\* the timeline filter called on every event list and every criteria
SpecFilter == Init /\ [][NextFilter]_vars

\* ---------------------------------------------------- the timeline tools

\* datetime.isoformat()
IsoFormat(ts) == [iso |-> <<2024, 1, ts.day, ts.hour>>]

\* _lean_timeline_event(event): the dict of one event
_lean_timeline_event(e) ==
    [event_id |-> e.id,
     type |-> IF TypeVal(e) # "" THEN [str |-> TypeVal(e)] ELSE NoValue,
     timestamp |-> IF "timestamp" \in DOMAIN e /\ e.timestamp # NoValue
                   THEN IsoFormat(e.timestamp) ELSE NoValue,
     is_done |-> e.is_done,
     is_starred |-> e.is_starred]

\* the event of the model with this id
EventById(i) == CHOOSE e \in Events : e.id = i

\* the event lists edu.get_notifications() returns
TimelineLists ==
    {<<>>,
     <<EventById(1)>>,
     <<EventById(2), EventById(1)>>,
     <<EventById(3), EventById(2), EventById(1)>>,
     <<EventById(5), EventById(6)>>}

\* What edu.get_notifications() does for one session: raises, or returns events.
TimelineOutcomes ==
    {[raise |-> TRUE, err |-> e, events |-> <<>>] : e \in FetchErrors}
    \cup {[raise |-> FALSE, err |-> "", events |-> l] : l \in TimelineLists}

\* the arguments of get_timeline that the model varies
TimelineArgs ==
    [status : {"active", "all"}, include_system : BOOLEAN,
     limit : 1..MaxLimit, offset : 0..MaxOffset]

\* lines 1171-1182: the criteria get_timeline hands to the filter
TimelineCriteria(args) ==
    [include_system |-> args.include_system,
     status |-> IF args.status = "all" THEN "" ELSE args.status,
     starred |-> "", event_type |-> "", category |-> "",
     date_from |-> "", date_to |-> "",
     limit |-> args.limit, offset |-> args.offset]

\* A fetch that sorts and filters but returns every survivor.
TimelineFetchUnpaged(outcome, args) ==
    LET filtered == _filter_timeline_events(outcome.events,
                        [TimelineCriteria(args) EXCEPT !.offset = 0,
                                                       !.limit = Len(outcome.events)]) IN
    IF outcome.raise THEN [raise |-> TRUE, err |-> outcome.err, items |-> <<>>]
    ELSE IF filtered.kind # "ok" THEN [raise |-> TRUE, err |-> filtered.kind, items |-> <<>>]
    ELSE [raise |-> FALSE, err |-> "",
          items |-> [k \in 1..Len(filtered.value) |-> _lean_timeline_event(filtered.value[k])]]

\* lines 1169-1183: _fetch(edu) of get_timeline for one session
TimelineFetch(outcome, args) ==
    LET filtered == _filter_timeline_events(outcome.events, TimelineCriteria(args)) IN
    IF outcome.raise THEN [raise |-> TRUE, err |-> outcome.err, items |-> <<>>]
    ELSE IF filtered.kind # "ok" THEN [raise |-> TRUE, err |-> filtered.kind, items |-> <<>>]
    ELSE [raise |-> FALSE, err |-> "",
          items |-> [k \in 1..Len(filtered.value) |-> _lean_timeline_event(filtered.value[k])]]

_ERROR_HINTS ==
    [BadCredentialsException |->
       "Wrong username or password. Check EDUPAGE_USERNAME and EDUPAGE_PASSWORD.",
     CaptchaException |->
       "Edupage is requesting a CAPTCHA. Log in via browser first, then retry.",
     NotLoggedInException |-> "Not logged in. Call the 'login' tool first.",
     RuntimeError |-> "Check that you are logged in (call 'login' tool).",
     ConnectionError |-> "Network error. Check your internet connection.",
     TimeoutError |-> "Request timed out. Edupage may be slow - try again."]

\* type(e).__name__ of the exception a result stands for: the helpers raise
\* RuntimeError, a backend exception keeps its own class
ExcName(out) ==
    IF out.kind = "Raised" THEN out.error ELSE "RuntimeError"

\* an exception of the backend that leaves the body of a tool
Raised(e) == [kind |-> "Raised", error |-> e]

\* _error(action, detail, hint): the hint key is left out when the hint is ""
_error(action, detail, hint) ==
    IF hint # ""
    THEN [error |-> TRUE, action |-> action, detail |-> detail, hint |-> hint]
    ELSE [error |-> TRUE, action |-> action, detail |-> detail]

\* lines 304-317: the wrapper around a tool whose body returned or raised `out`
_handle_errors(action, out) ==
    IF out.kind = "ok" THEN out.value
    ELSE _error(action, out,
                IF ExcName(out) \in DOMAIN _ERROR_HINTS
                THEN _ERROR_HINTS[ExcName(out)] ELSE "")

\* _lean_json(data): the JSON text of the data
_lean_json(data) == [json |-> data]

\* get_timeline(..., school): the reply and the sessions that were asked
get_timeline(sessions, backend, args, school) ==
    LET fetch == [id \in DOMAIN backend |-> TimelineFetch(backend[id], args)]
        r == _for_all_sessions(sessions, fetch, school) IN
    [out |-> _handle_errors("get_timeline",
                 IF r.out.kind = "ok" THEN Ok(_lean_json(r.out.value)) ELSE r.out),
     calls |-> r.calls]

\* a call of the tool get_timeline
GetTimeline ==
    /\ started
    /\ call = Idle
    /\ UNCHANGED started
    /\ \E school \in SchoolIds \cup {NoSchool}, args \in TimelineArgs :
         \E backend \in [Reachable(school) -> TimelineOutcomes] :
           Reply([op |-> "get_timeline", school |-> school, args |-> args,
                  backend |-> backend],
                 get_timeline(_sessions, backend, args, school))

\* the class lists edu.get_classes() returns, and the name a caller asks for
ClassLists == {<<>>, << <<"4", "A">> >>}
ClassNames == {<<"4", "a">>}

\* What edu.get_classes() does: raises, or returns the classes.
ClassOutcomes ==
    {[raise |-> TRUE, err |-> e, classes |-> <<>>] : e \in FetchErrors}
    \cup {[raise |-> FALSE, err |-> "", classes |-> l] : l \in ClassLists}

\* _lean_timetable(lessons): one dict per lesson
_lean_timetable(lessons) == [k \in 1..Len(lessons) |-> [period |-> lessons[k]]]

\* lines 825-833: _get_timetable_by_class(edu, class_name, target_date); the
\* available names are sorted, a list of at most one name is
_get_timetable_by_class(classes, timetable, class_name) ==
    LET matched == SelectSeq(classes.classes,
                             LAMBDA c : Lower(c) = Lower(class_name)) IN
    IF classes.raise THEN Raised(classes.err)
    ELSE IF matched = <<>>
    THEN Ok(_error("get_timetable",
                   [kind |-> "ClassNotFound", name |-> class_name,
                    available |-> classes.classes],
                   "Available classes"))
    ELSE IF timetable.raise THEN Raised(timetable.err)
    ELSE Ok(_lean_json(_lean_timetable(timetable.items)))

\* lines 759-791: get_timetable(class_name=..., school=...) with no student
\* name: one session, the class looked up in it
get_timetable(sessions, classes, timetable, class_name, school) ==
    LET edu == _get_session(sessions, school) IN
    _handle_errors("get_timetable",
        IF edu.kind # "ok" THEN edu
        ELSE _get_timetable_by_class(classes, timetable, class_name))

\* a call of the tool get_timetable with a class name
GetTimetable ==
    /\ started
    /\ call = Idle
    /\ UNCHANGED started
    /\ \E school \in SchoolIds \cup {NoSchool}, class_name \in ClassNames :
         \E classes \in ClassOutcomes, timetable \in FetchOutcomes :
           Reply([op |-> "get_timetable", school |-> school, class_name |-> class_name,
                  classes |-> classes, timetable |-> timetable],
                 [out |-> get_timetable(_sessions, classes, timetable, class_name, school),
                  calls |-> <<>>])

NextTimeline ==
    \/ TryEnvLogin
    \/ Login
    \/ LoginAuto
    \/ GetTimeline
    \/ GetTimetable
    \/ Respond

\* the logins and the tools get_timeline and get_timetable
SpecTimeline == Init /\ [][NextTimeline]_vars

\* ------------------------------------------------------------ send_message

\* What get_teachers and get_students do in one session: each returns its
\* names or raises.
Directories ==
    {[teachers |-> [raise |-> TRUE, names |-> <<>>],
      students |-> [raise |-> FALSE, names |-> <<>>]],
     [teachers |-> [raise |-> FALSE, names |-> <<Eva>>],
      students |-> [raise |-> FALSE, names |-> <<Jan>>]],
     [teachers |-> [raise |-> FALSE, names |-> <<>>],
      students |-> [raise |-> FALSE, names |-> <<Jana>>]],
     [teachers |-> [raise |-> FALSE, names |-> <<Eva>>],
      students |-> [raise |-> FALSE, names |-> <<Jan, Jana>>]],
     [teachers |-> [raise |-> FALSE, names |-> <<Jan>>],
      students |-> [raise |-> TRUE, names |-> <<>>]]}

\* The recipients argument as its comma-separated fields, blanks included.
RecipientInputs ==
    {<< <<"j", "a", "n">> >>,
     << <<"A", "n">> >>,
     << <<"e", "v", "a">>, <<" ", "j", "a", "n", "a">> >>,
     << <<>> >>}

\* r.strip()
RECURSIVE StripBlanks(_)
StripBlanks(r) ==
    IF r # <<>> /\ Head(r) = " " THEN StripBlanks(Tail(r))
    ELSE IF r # <<>> /\ r[Len(r)] = " " THEN StripBlanks(SubSeq(r, 1, Len(r) - 1))
    ELSE r

\* the lists of a sequence of lists, one after the other
RECURSIVE Flatten(_)
Flatten(lists) ==
    IF lists = <<>> THEN <<>> ELSE Head(lists) \o Flatten(Tail(lists))

\* lines 1407-1415: all_people of one session, teachers first; a listing that
\* raises adds nobody
AllPeople(sub, dir) ==
    LET names == (IF dir.teachers.raise THEN <<>> ELSE dir.teachers.names)
                 \o (IF dir.students.raise THEN <<>> ELSE dir.students.names) IN
    [k \in 1..Len(names) |-> [sub |-> sub, name |-> names[k], k |-> k]]

\* the keys of people_index in insertion order: the lowered names, first
\* occurrences only
RECURSIVE IndexKeys(_)
IndexKeys(people) ==
    IF people = <<>> THEN <<>>
    ELSE LET front == IndexKeys(SubSeq(people, 1, Len(people) - 1))
             key == Lower(people[Len(people)].name) IN
         IF \E i \in 1..Len(front) : front[i] = key THEN front ELSE Append(front, key)

\* lines 1423-1426: the entries of every key that contains the lowered name
Candidates(people, name) ==
    Flatten([i \in 1..Len(IndexKeys(people)) |->
               IF Contains(IndexKeys(people)[i], Lower(name))
               THEN SelectSeq(people, LAMBDA p : Lower(p.name) = IndexKeys(people)[i])
               ELSE <<>>])

\* A turn of the loop that passes over a name nobody has.
RecipientStepSkipUnknown(acc, people, name) ==
    LET candidates == Candidates(people, name)
        schools_found == {candidates[i].sub : i \in 1..Len(candidates)} IN
    IF candidates = <<>> THEN acc
    ELSE IF Len(candidates) = 1 THEN [acc EXCEPT !.matched = Append(@, candidates[1])]
    ELSE IF Cardinality(schools_found) = 1
    THEN [acc EXCEPT !.matched = Append(@, candidates[1])]
    ELSE [acc EXCEPT !.ambiguous = Append(@, [name |-> name, schools |-> schools_found])]

\* lines 1421-1437: one turn of the loop over the recipient names
RecipientStep(acc, people, name) ==
    LET candidates == Candidates(people, name)
        schools_found == {candidates[i].sub : i \in 1..Len(candidates)} IN
    IF candidates = <<>> THEN [acc EXCEPT !.not_found = Append(@, name)]
    ELSE IF Len(candidates) = 1 THEN [acc EXCEPT !.matched = Append(@, candidates[1])]
    ELSE IF Cardinality(schools_found) = 1
    THEN [acc EXCEPT !.matched = Append(@, candidates[1])]
    ELSE [acc EXCEPT !.ambiguous = Append(@, [name |-> name, schools |-> schools_found])]

RECURSIVE RecipientLoop(_, _, _, _)
RecipientLoop(names, people, i, acc) ==
    IF i > Len(names) THEN acc
    ELSE RecipientLoop(names, people, i + 1, RecipientStep(acc, people, names[i]))

\* lines 1449-1453: the keys of by_session, in the order they were added
RECURSIVE SessionsOf(_)
SessionsOf(matched) ==
    IF matched = <<>> THEN <<>>
    ELSE LET front == SessionsOf(SubSeq(matched, 1, Len(matched) - 1))
             sub == matched[Len(matched)].sub IN
         IF \E i \in 1..Len(front) : front[i] = sub THEN front ELSE Append(front, sub)

\* lines 1455-1460: the sends, one per session, until one raises
RECURSIVE SendLoop(_, _, _, _, _)
SendLoop(subs, matched, failing, i, sent) ==
    IF i > Len(subs) THEN [out |-> Ok([sent_to |-> Flatten([k \in 1..Len(sent) |-> sent[k].people])]),
                           calls |-> sent]
    ELSE IF subs[i] = failing THEN [out |-> Raised("ConnectionError"), calls |-> sent]
    ELSE SendLoop(subs, matched, failing, i + 1,
                  Append(sent, [sub |-> subs[i],
                                people |-> SelectSeq(matched, LAMBDA p : p.sub = subs[i])]))

\* the body of send_message(recipients, body, school): what it returns or
\* raises (out) and the edu.send_message calls that went through (calls)
send_message_body(sessions, backend, recipients, school, failing) ==
    LET all == _get_all_sessions(sessions) IN
    IF all.kind # "ok" THEN [out |-> all, calls |-> <<>>]
    ELSE IF school # NoSchool /\ ~Has(all.value, school)
    THEN [out |-> Ok(_error("send_message", SessionNotFound(school, Join(Keys(all.value))), "")),
          calls |-> <<>>]
    ELSE LET targets == IF school # NoSchool THEN <<school>> ELSE Keys(all.value)
             names == [i \in 1..Len(recipients) |-> StripBlanks(recipients[i])]
             people == Flatten([i \in 1..Len(targets) |->
                                  AllPeople(targets[i], backend[targets[i]])])
             acc == RecipientLoop(names, people, 1,
                        [matched |-> <<>>, not_found |-> <<>>, ambiguous |-> <<>>]) IN
         IF acc.not_found # <<>>
         THEN [out |-> Ok(_error("send_message",
                                 [kind |-> "NotFound", names |-> acc.not_found], "")),
               calls |-> <<>>]
         ELSE IF acc.ambiguous # <<>>
         THEN [out |-> Ok(_error("send_message",
                                 [kind |-> "Ambiguous", names |-> acc.ambiguous], "")),
               calls |-> <<>>]
         ELSE IF acc.matched = <<>>
         THEN [out |-> Ok(_error("send_message", [kind |-> "NoRecipients"], "")),
               calls |-> <<>>]
         ELSE SendLoop(SessionsOf(acc.matched), acc.matched, failing, 1, <<>>)

\* the tool send_message under its error wrapper
send_message(sessions, backend, recipients, school, failing) ==
    LET r == send_message_body(sessions, backend, recipients, school, failing) IN
    [out |-> _handle_errors("send_message", r.out), calls |-> r.calls]

\* a call of the tool send_message; `failing` is the session whose
\* edu.send_message raises, if any
SendMessage ==
    /\ started
    /\ call = Idle
    /\ UNCHANGED started
    /\ \E school \in SchoolIds \cup {NoSchool}, recipients \in RecipientInputs :
         \E backend \in [Reachable(school) -> Directories],
            failing \in Reachable(school) \cup {NoSchool} :
           Reply([op |-> "send_message", school |-> school, recipients |-> recipients,
                  backend |-> backend, failing |-> failing],
                 send_message(_sessions, backend, recipients, school, failing))

NextSend ==
    \/ TryEnvLogin
    \/ Login
    \/ LoginAuto
    \/ SendMessage
    \/ Respond

\* the logins and the tool send_message
SpecSend == Init /\ [][NextSend]_vars

\* --------------------------------------------------------------- the claims

\* the position of id in the registry (registration order)
Rank(id) == CHOOSE i \in 1..Len(_sessions) : _sessions[i].id = id

\* A fan-out call that got past the registry and school tests.
FanOutRan ==
    /\ call.op = "_for_all_sessions"
    /\ _sessions # <<>>
    /\ call.school = NoSchool \/ Has(_sessions, call.school)

\* the ids the last call targeted, in registration order
Targeted ==
    IF call.school = NoSchool THEN Keys(_sessions) ELSE <<call.school>>

\* the items session id contributes to the merge: none when its fetch
\* raised, else what it returned, tagged when several sessions are targeted
Contribution(id) ==
    IF call.fetch[id].raise THEN <<>>
    ELSE [k \in 1..Len(call.fetch[id].items) |->
            [src |-> id, n |-> call.fetch[id].items[k],
             school |-> IF Len(Targeted) > 1 THEN id ELSE Absent]]

RECURSIVE ConcatContributions(_)
ConcatContributions(ids) ==
    IF ids = <<>> THEN <<>>
    ELSE Contribution(Head(ids)) \o ConcatContributions(Tail(ids))

\* C1: if at least one targeted session's fetch returns (an empty list
\* included), _for_all_sessions returns, and returns exactly the elements of
\* the sessions whose fetch returned.
C1_PartialSuccessReturns ==
    (FanOutRan /\ \E i \in 1..Len(Targeted) : ~call.fetch[Targeted[i]].raise)
    => /\ ret.out.kind = "ok"
       /\ ret.out.value = ConcatContributions(Targeted)

\* C2: if the fetch raises for every targeted session, _for_all_sessions
\* fails with the all-sessions-failed error, which carries one entry
\* (session id, error text) per targeted session in the order tried.
C2_AllFailedCarriesEveryError ==
    (FanOutRan /\ \A i \in 1..Len(Targeted) : call.fetch[Targeted[i]].raise)
    => /\ ret.out.kind = "AllSessionsFailed"
       /\ ret.out.errors =
            [i \in 1..Len(Targeted) |->
                [school |-> Targeted[i], error |-> call.fetch[Targeted[i]].err]]

C2_Witness ==
    /\ FanOutRan
    /\ Len(Targeted) = 3
    /\ \A i \in 1..3 : call.fetch[Targeted[i]].raise
    /\ call.fetch[Targeted[1]].err # call.fetch[Targeted[2]].err
    /\ ret.out.kind = "AllSessionsFailed"
    /\ Len(ret.out.errors) = 3

\* C3: the fetch is invoked exactly once for every targeted session, in
\* order, whatever the other fetches did: an exception of one session's fetch
\* does not keep a later session's fetch from running.
C3_EveryTargetFetchedOnce ==
    FanOutRan => ret.calls = Targeted

C3_Witness ==
    /\ FanOutRan
    /\ Len(Targeted) = 3
    /\ call.fetch[Targeted[1]].raise
    /\ ~call.fetch[Targeted[2]].raise
    /\ call.fetch[Targeted[3]].raise
    /\ ret.calls = Targeted

\* C4: every element of the merged result carries the id of the session it
\* came from as its 'school' tag when more than one session was targeted, and
\* no element is tagged when exactly one session was targeted.
C4_TaggedOnlyWhenMulti ==
    (FanOutRan /\ ret.out.kind = "ok")
    => \A k \in 1..Len(ret.out.value) :
         IF call.school = NoSchool /\ Len(_sessions) >= 2
         THEN ret.out.value[k].school = ret.out.value[k].src
         ELSE ret.out.value[k].school = Absent

C4_Witness ==
    /\ FanOutRan
    /\ call.school = NoSchool
    /\ Len(_sessions) >= 2
    /\ ret.out.kind = "ok"
    /\ \E j, k \in 1..Len(ret.out.value) :
         /\ ret.out.value[j].src # ret.out.value[k].src
         /\ ret.out.value[j].school = ret.out.value[j].src
         /\ ret.out.value[k].school = ret.out.value[k].src

\* C5: the merged result lists the sessions' contributions in registration
\* order, and within one session's contribution keeps the order the fetch
\* returned.
C5_MergedInRegistrationOrder ==
    (FanOutRan /\ ret.out.kind = "ok")
    => /\ \A j, k \in 1..Len(ret.out.value) :
            j < k => Rank(ret.out.value[j].src) <= Rank(ret.out.value[k].src)
       /\ \A i \in 1..Len(Targeted) :
            ~call.fetch[Targeted[i]].raise
            => LET own == SelectSeq(ret.out.value, LAMBDA it : it.src = Targeted[i])
               IN  [k \in 1..Len(own) |-> own[k].n] = call.fetch[Targeted[i]].items

C5_Witness ==
    /\ FanOutRan
    /\ ret.out.kind = "ok"
    /\ Len(ret.out.value) >= 3
    /\ ret.out.value[1].src = _sessions[1].id
    /\ ret.out.value[2].src = _sessions[1].id
    /\ ret.out.value[1].n # ret.out.value[2].n
    /\ ret.out.value[3].src # _sessions[1].id

\* a call that ran the loop over the subdomains (login, or the startup login
\* with a subdomain list)
RanLoginLoop ==
    call.op \in {"login", "_try_env_login"} /\ ret.out.kind \in {"ok", "error"}
    /\ "edus" \in DOMAIN ret.out

\* a call that ran the portal login
RanPortalLogin ==
    call.op \in {"login_auto", "_try_env_login"} /\ ret.out.kind = "ok"
    /\ "sub" \in DOMAIN ret.out

\* C6: the registry holds at most one session per id, and after a successful
\* login under an id the lookup of that id gives the handle that login made
\* (the newest one).
C6_UniqueIdNewestHandle ==
    /\ \A i, j \in 1..Len(_sessions) : _sessions[i].id = _sessions[j].id => i = j
    /\ RanLoginLoop
       => LET subs == SplitSubdomains(call.raw) IN
          \A i \in 1..Len(subs) :
            (/\ call.outs[i] = "ok"
             /\ ~\E j \in (i + 1)..Len(subs) : subs[j] = subs[i] /\ call.outs[j] = "ok")
            => /\ Has(_sessions, subs[i])
               /\ _get_session(_sessions, subs[i]) = Ok(ret.out.edus[i])
    /\ RanPortalLogin
       => _get_session(_sessions, ret.out.sub) = Ok(ret.out.edu)

\* a login replaced the handle of the session registered first: its handle
\* is newer than that of a session registered after it
C6_Witness ==
    /\ call.op = "login"
    /\ RanLoginLoop
    /\ Len(_sessions) >= 2
    /\ _sessions[1].edu > _sessions[2].edu
    /\ \E i \in 1..Len(SplitSubdomains(call.raw)) :
         /\ call.outs[i] = "ok"
         /\ SplitSubdomains(call.raw)[i] = _sessions[1].id
         /\ ret.out.edus[i] = _sessions[1].edu

\* C7: while the registry is empty, _get_session, _get_all_sessions,
\* _for_all_sessions and _resolve_student_across_sessions fail with the
\* not-authenticated error, with or without a school argument, and call no
\* backend.
C7_EmptyRegistryNotAuthenticated ==
    (/\ _sessions = <<>>
     /\ call.op \in {"_get_session", "_get_all_sessions", "_for_all_sessions",
                     "_resolve_student_across_sessions"})
    => /\ ret.out.kind = "NotAuthenticated"
       /\ ret.calls = <<>>

C7_Witness ==
    /\ _sessions = <<>>
    /\ call.op = "_for_all_sessions"
    /\ call.school # NoSchool
    /\ ret.out.kind = "NotAuthenticated"

\* C8: for a non-empty registry _get_session(school) gives the session of a
\* registered explicit id, a session-not-found error listing every registered
\* id for an unregistered one, the only session for no id and one session,
\* and an ambiguous-session error listing every id for no id and several.
C8_GetSessionCases ==
    (call.op = "_get_session" /\ _sessions # <<>>)
    => LET ids == [i \in 1..Len(_sessions) |-> _sessions[i].id] IN
       IF call.school # NoSchool
       THEN IF \E i \in 1..Len(_sessions) : _sessions[i].id = call.school
            THEN /\ ret.out.kind = "ok"
                 /\ \E i \in 1..Len(_sessions) :
                      _sessions[i] = [id |-> call.school, edu |-> ret.out.value]
            ELSE /\ ret.out.kind = "SessionNotFound"
                 /\ ret.out.available = ids
       ELSE IF Len(_sessions) = 1
            THEN ret.out.kind = "ok" /\ ret.out.value = _sessions[1].edu
            ELSE /\ ret.out.kind = "AmbiguousSession"
                 /\ ret.out.available = ids

C8_Witness ==
    /\ call.op = "_get_session"
    /\ Len(_sessions) = 2
    /\ call.school # NoSchool
    /\ ~Has(_sessions, call.school)
    /\ ret.out.kind = "SessionNotFound"
    /\ Len(ret.out.available) = 2

\* A resolver call that got past the registry and school tests.
ResolveRan ==
    /\ call.op = "_resolve_student_across_sessions"
    /\ _sessions # <<>>
    /\ call.school = NoSchool \/ Has(_sessions, call.school)

\* the students of session id
StudentsOf(id) == call.backend[id].students

\* the students of session id whose name is the query, case ignored
ExactIn(id) ==
    {k \in 1..Len(StudentsOf(id)) : Lower(StudentsOf(id)[k]) = Lower(call.name)}

\* the students of session id whose name contains the query, case ignored
SubstringIn(id) ==
    {k \in 1..Len(StudentsOf(id)) :
        \E a \in 0..(Len(StudentsOf(id)[k]) - Len(call.name)) :
            Lower(SubSeq(StudentsOf(id)[k], a + 1, a + Len(call.name))) = Lower(call.name)}

\* the resolver returned session id and a student of it named as the query
ReturnedFrom(id) ==
    /\ ret.out.kind = "ok"
    /\ ret.out.edu = _sessions[Rank(id)].edu
    /\ \E k \in ExactIn(id) : ret.out.student = StudentsOf(id)[k]

C10_SingleSessionAmbiguityReported ==
    (/\ ResolveRan
     /\ Len(Targeted) = 1
     /\ call.backend[Targeted[1]].listing = "ok"
     /\ ExactIn(Targeted[1]) = {}
     /\ Cardinality(SubstringIn(Targeted[1])) > 1)
    => /\ ret.out.kind = "AmbiguousWithin"
       /\ ret.out.matches =
            SelectSeq(StudentsOf(Targeted[1]),
                      LAMBDA n : \E k \in SubstringIn(Targeted[1]) :
                                    StudentsOf(Targeted[1])[k] = n)

\* A _resolve_student call whose student listing returned at least one
\* student.
ResolvedInSession ==
    /\ call.op = "_resolve_student"
    /\ call.listing = "ok"
    /\ call.students # <<>>

\* the students of the call whose name is the query, case ignored
ExactOfCall ==
    {k \in 1..Len(call.students) : Lower(call.students[k]) = Lower(call.name)}

\* the students of the call whose name contains the query, case ignored
SubstringOfCall ==
    {k \in 1..Len(call.students) :
        \E a \in 0..(Len(call.students[k]) - Len(call.name)) :
            Lower(SubSeq(call.students[k], a + 1, a + Len(call.name))) = Lower(call.name)}

\* the names of the students at the positions ks, in list order
NamesAt(ks) ==
    LET Pick[k \in 0..Len(call.students)] ==
            IF k = 0 THEN <<>>
            ELSE IF k \in ks THEN Append(Pick[k - 1], call.students[k])
            ELSE Pick[k - 1]
    IN  Pick[Len(call.students)]

\* C11: within one session _resolve_student returns a student whose name
\* equals the query case-insensitively whenever there is one, without an
\* ambiguity error, even when the query is part of other students' names.
C11_ExactMatchWins ==
    (ResolvedInSession /\ ExactOfCall # {})
    => /\ ret.out.kind = "ok"
       /\ ret.out.err.kind = "none"
       /\ \E k \in ExactOfCall : ret.out.student = call.students[k]

C11_Witness ==
    /\ ResolvedInSession
    /\ ExactOfCall # {}
    /\ Cardinality(SubstringOfCall) >= 2
    /\ call.name # ret.out.student
    /\ ret.out.kind = "ok"

\* C12: within one session with at least one student and no exact match,
\* _resolve_student returns the student when exactly one name contains the
\* query case-insensitively, fails with an ambiguity error listing every
\* matching name when several do, and fails with a not-found error listing
\* every student of the session when none does.
C12_SubstringCases ==
    (ResolvedInSession /\ ExactOfCall = {})
    => IF Cardinality(SubstringOfCall) = 1
       THEN /\ ret.out.kind = "ok"
            /\ \E k \in SubstringOfCall : ret.out.student = call.students[k]
       ELSE IF Cardinality(SubstringOfCall) > 1
       THEN /\ ret.out.kind = "AmbiguousWithin"
            /\ ret.out.student = NoStudent
            /\ ret.out.err.matches = NamesAt(SubstringOfCall)
       ELSE /\ ret.out.kind = "NotFoundInSession"
            /\ ret.out.student = NoStudent
            /\ ret.out.err.available = call.students

\* the query differs in case from the one name of two that contains it
C12_Witness ==
    /\ ResolvedInSession
    /\ ExactOfCall = {}
    /\ Len(call.students) = 2
    /\ Cardinality(SubstringOfCall) = 1
    /\ ~\E k \in 1..2 : Contains(call.students[k], call.name)
    /\ ret.out.kind = "ok"

\* per-session resolution yields a student in session id: an exact match, or
\* exactly one substring match
ResolvesIn(id) == ExactIn(id) # {} \/ Cardinality(SubstringIn(id)) = 1

\* the searched ids in which the name resolves, in search order
ResolvingIds == SelectSeq(Targeted, LAMBDA id : ResolvesIn(id))

\* every searched session's student listing returned when the name was
\* resolved in it
EverySessionListed ==
    \A i \in 1..Len(Targeted) : call.backend[Targeted[i]].listing # "down"

ScopedRan ==
    /\ ResolveRan
    /\ call.school # NoSchool

\* the (session id, student name) pairs of session id, in list order
PairsOf(id) == [k \in 1..Len(StudentsOf(id)) |-> <<id, StudentsOf(id)[k]>>]

\* C14: with an explicit registered school the resolver consults only that
\* session: get_students is called on no other session and the outcome is
\* the one that session's students alone decide, whatever the other sessions
\* hold.
C14_ExplicitSchoolOnly ==
    ScopedRan
    => LET id == call.school IN
       /\ \A k \in 1..Len(ret.calls) : ret.calls[k] = id
       /\ IF call.backend[id].listing = "down" THEN ret.out.kind = "BackendError"
          ELSE IF ExactIn(id) # {} THEN ReturnedFrom(id)
          ELSE IF Cardinality(SubstringIn(id)) = 1
          THEN /\ ret.out.kind = "ok"
               /\ ret.out.edu = _sessions[Rank(id)].edu
               /\ \E k \in SubstringIn(id) : ret.out.student = StudentsOf(id)[k]
          ELSE /\ ret.out.kind = "NotFound"
               /\ ret.out.available =
                    IF call.backend[id].listing = "ok" THEN PairsOf(id) ELSE <<>>

\* the name is a student of the named school and of another registered one
C14_Witness ==
    /\ ScopedRan
    /\ ExactIn(call.school) # {}
    /\ \E i \in 1..Len(_sessions) :
         /\ _sessions[i].id # call.school
         /\ _sessions[i].id \in DOMAIN call.backend
         /\ ExactIn(_sessions[i].id) # {}
         /\ call.backend[_sessions[i].id].listing = "ok"
    /\ ReturnedFrom(call.school)

\* the pairs of the sessions ids that are in listed, session after session
RECURSIVE ConcatPairs(_, _)
ConcatPairs(ids, listed) ==
    IF ids = <<>> THEN <<>>
    ELSE (IF Head(ids) \in listed THEN PairsOf(Head(ids)) ELSE <<>>)
         \o ConcatPairs(Tail(ids), listed)

\* the resolver searched and the name resolved in no session
ResolvedNowhere ==
    /\ ResolveRan
    /\ EverySessionListed
    /\ \A i \in 1..Len(Targeted) : ~ResolvesIn(Targeted[i])

FilterRan == call.op = "_filter_timeline_events"
FilterReturned == FilterRan /\ ret.out.kind = "ok"

\* the filter applied to its own output with the same criteria
Refiltered == _filter_timeline_events(ret.out.value, call.crit)

\* C16 as stated: the filter is idempotent for every event list and every
\* criteria, limit and offset included: applied to its own output with the
\* same criteria it returns the identical sequence.
C16_Idempotent ==
    FilterReturned => Refiltered = ret.out

\* C16 amended: with offset 0 the filter applied to its own output returns the
\* identical sequence; with a positive offset it returns the output without
\* its first `offset` elements.
C16_IdempotentAtOffsetZero ==
    FilterReturned
    => /\ Refiltered.kind = "ok"
       /\ call.crit.offset = 0 => Refiltered.value = ret.out.value
       /\ call.crit.offset > 0
          => Refiltered.value =
               SubSeq(ret.out.value, call.crit.offset + 1, Len(ret.out.value))

\* a page of two events that were handed over oldest first, and a page cut by
\* the limit
C16_Witness ==
    /\ FilterReturned
    /\ call.crit.offset = 0
    /\ Len(ret.out.value) = 2
    /\ Len(call.events) = 3
    /\ ret.out.value[1] = call.events[3]
    /\ Refiltered = ret.out

\* the event has a timestamp: the attribute is there and is not None
HasTimestamp(e) == "timestamp" \in DOMAIN e /\ e.timestamp # NoValue

\* the timestamp an event is ordered by: its own, or the oldest possible
OrderedBy(e) == IF HasTimestamp(e) THEN e.timestamp ELSE DatetimeMin

\* newest first, the events without a timestamp behind those that have one
NewestFirst(page) ==
    \A i, j \in 1..Len(page) :
      i < j => /\ ~Before(OrderedBy(page[i]), OrderedBy(page[j]))
               /\ HasTimestamp(page[j]) => HasTimestamp(page[i])

\* C17: the filter returns the surviving events ordered by timestamp
\* descending, an event without a timestamp (attribute absent or None) behind
\* every event that has one, and the sort never fails for want of a timestamp.
C17_SortedNewestFirstNeverFails ==
    FilterRan => /\ ret.out.kind = "ok"
                 /\ NewestFirst(ret.out.value)

\* the sorted survivors of the call
SortedSurvivors == SortNewestFirst(Survivors(call.events, call.crit))

\* C18: for non-negative limit and offset the filter returns exactly the
\* elements at positions offset .. offset+limit-1 of the sorted survivors: at
\* most `limit` elements, and none when offset is at least the number of
\* survivors.
C18_PageOfSortedSurvivors ==
    FilterReturned
    => LET page == ret.out.value
           n == Len(SortedSurvivors)
           offset == call.crit.offset
           limit == call.crit.limit IN
       /\ Len(page) <= limit
       /\ offset >= n => page = <<>>
       /\ offset < n => Len(page) = Min(limit, n - offset)
       /\ \A k \in 1..Len(page) : page[k] = SortedSurvivors[offset + k]

\* timestamps t1 > t2 > t3 handed over oldest first: limit 2, offset 1 gives
\* [t2, t3]
C18_Witness ==
    /\ FilterReturned
    /\ Len(call.events) = 3
    /\ \A i \in 1..3 : HasTimestamp(call.events[i])
    /\ Before(call.events[1].timestamp, call.events[2].timestamp)
    /\ Before(call.events[2].timestamp, call.events[3].timestamp)
    /\ call.crit.limit = 2
    /\ call.crit.offset = 1
    /\ ret.out.value = <<call.events[2], call.events[1]>>

\* the elements of a sequence
Range(seq) == {seq[i] : i \in 1..Len(seq)}

\* the event is of a system type
IsSystem(e) == TypeVal(e) \in _SYSTEM_EVENT_TYPES

\* the criteria of the call with include_system set to b, all else equal
WithSystem(b) == [call.crit EXCEPT !.include_system = b]

\* the page holds every survivor: nothing skipped, nothing cut
WholePage ==
    /\ call.crit.offset = 0
    /\ Len(ret.out.value) < call.crit.limit

\* C19: an event of a system type is never returned when include_system is
\* false; when include_system is true it is kept exactly when the remaining
\* criteria keep it, so it is returned whenever the page holds every survivor;
\* whether an event of a non-system type is kept does not depend on
\* include_system, and a list without system events gives the same result
\* either way.
C19_SystemEventsOnlyOnRequest ==
    FilterReturned
    => /\ ~call.crit.include_system
          => \A e \in Range(ret.out.value) : ~IsSystem(e)
       /\ call.crit.include_system
          => \A e \in Range(call.events) :
               /\ IsSystem(e)
               /\ ~e.is_removed
               /\ call.crit.status = "active" => ~e.is_done
               /\ call.crit.status = "done" => e.is_done
               /\ call.crit.starred = "yes" => e.is_starred
               /\ call.crit.starred = "no" => ~e.is_starred
               /\ call.crit.category = "" /\ call.crit.event_type = ""
               /\ call.crit.date_from # "" => e.timestamp.day >= ParseDate(call.crit.date_from)
               /\ call.crit.date_to # "" => e.timestamp.day <= ParseDate(call.crit.date_to)
               /\ WholePage
               => e \in Range(ret.out.value)
       /\ \A e \in Range(call.events) :
            ~IsSystem(e) => (KeepEvent(e, WithSystem(TRUE)) <=> KeepEvent(e, WithSystem(FALSE)))
       /\ (\A e \in Range(call.events) : ~IsSystem(e))
          => _filter_timeline_events(call.events, WithSystem(~call.crit.include_system)) = ret.out

\* a system event between two others, returned on request
C19_Witness ==
    /\ FilterReturned
    /\ call.crit.include_system
    /\ call.crit.date_from # ""
    /\ Len(call.events) = 3
    /\ IsSystem(call.events[2])
    /\ ~IsSystem(call.events[1])
    /\ call.events[2] \in Range(ret.out.value)
    /\ call.events[1] \in Range(ret.out.value)
    /\ _filter_timeline_events(call.events, WithSystem(FALSE)).value = <<call.events[1]>>

\* C20: every event the filter returns is an element of the input that is not
\* removed, is not done when status is "active", is done when status is
\* "done", is starred when starred is "yes" and is not starred when starred is
\* "no"; a removed event is never returned, include_system or not.
C20_ReturnedEventsMatch ==
    FilterReturned
    => \A e \in Range(ret.out.value) :
         /\ e \in Range(call.events)
         /\ ~e.is_removed
         /\ call.crit.status = "active" => ~e.is_done
         /\ call.crit.status = "done" => e.is_done
         /\ call.crit.starred = "yes" => e.is_starred
         /\ call.crit.starred = "no" => ~e.is_starred

\* a removed event that meets every other criterion is left out while another
\* event is returned, with include_system set
C20_Witness ==
    /\ FilterReturned
    /\ call.crit.include_system
    /\ call.crit.status = "done"
    /\ call.crit.starred = "yes"
    /\ \E i \in 1..Len(call.events) :
         /\ call.events[i].is_removed
         /\ call.events[i].is_done
         /\ call.events[i].is_starred
    /\ Len(ret.out.value) = 1
    /\ ~ret.out.value[1].is_removed

\* A filter call that was given a category and a type list.
BothTypeInputs ==
    /\ FilterRan
    /\ call.crit.category # ""
    /\ call.crit.event_type # ""

\* the result of the call had it been given no type list, or no category
WithoutTypeList ==
    _filter_timeline_events(call.events, [call.crit EXCEPT !.event_type = ""])
WithoutCategory ==
    _filter_timeline_events(call.events, [call.crit EXCEPT !.category = ""])

\* C21 as stated: when both a category and a comma-separated type list are
\* given, the type filter comes from the category alone and the type list has
\* no effect on the result.
C21_CategoryAlone ==
    BothTypeInputs => ret.out = WithoutTypeList

\* C21 amended: when both are given and the category is a name of the
\* category table, the type list has no effect and every returned event has a
\* type of that category; when the category is no name of the table, the
\* category has no effect and the type list alone decides.
C21_KnownCategoryAlone ==
    BothTypeInputs
    => IF call.crit.category \in DOMAIN _EVENT_CATEGORIES
       THEN /\ ret.out = WithoutTypeList
            /\ ret.out.kind = "ok"
               => \A e \in Range(ret.out.value) :
                    TypeVal(e) \in _EVENT_CATEGORIES[call.crit.category]
       ELSE ret.out = WithoutCategory

\* category "grades" next to a list naming "sprava": the message is left out
\* although the list names its type, the grade is returned
C21_Witness ==
    /\ BothTypeInputs
    /\ call.crit.category = "grades"
    /\ FilterReturned
    /\ \E i \in 1..Len(call.events) :
         /\ TypeVal(call.events[i]) = "sprava"
         /\ KeepEvent(call.events[i], [call.crit EXCEPT !.category = ""])
    /\ \E e \in Range(ret.out.value) : TypeVal(e) = "znamka"
    /\ \A e \in Range(ret.out.value) : TypeVal(e) # "sprava"

\* A filter call that was given a date bound.
DateBoundSet == call.crit.date_from # "" \/ call.crit.date_to # ""

\* the date of a dated event lies within the bounds that are set, the bounds
\* included
WithinBounds(e) ==
    /\ call.crit.date_from # "" => e.timestamp.day >= ParseDate(call.crit.date_from)
    /\ call.crit.date_to # "" => e.timestamp.day <= ParseDate(call.crit.date_to)

\* the criteria of the call without its date bounds
WithoutDates == [call.crit EXCEPT !.date_from = "", !.date_to = ""]

\* C22 as stated: every returned event has a date d with date_from <= d <=
\* date_to for each bound that is set, the bounds included.
C22_EveryReturnedEventDated ==
    FilterReturned /\ DateBoundSet
    => \A e \in Range(ret.out.value) : HasTimestamp(e) /\ WithinBounds(e)

\* C22 amended: every returned event that has a timestamp has a date within
\* the bounds that are set; an event dated within them (a bound's own date
\* included, nothing excluded on the side of an unset bound) or without a
\* timestamp is dropped by no date test: it is returned when the other
\* criteria keep it and the page holds every survivor.
C22_DatedEventsWithinBounds ==
    FilterReturned
    => /\ \A e \in Range(ret.out.value) : HasTimestamp(e) => WithinBounds(e)
       /\ \A e \in Range(call.events) :
            /\ HasTimestamp(e) => WithinBounds(e)
            /\ KeepEvent(e, WithoutDates)
            /\ WholePage
            => e \in Range(ret.out.value)

\* both bounds on the day of the one event returned; a later event is left out
C22_Witness ==
    /\ FilterReturned
    /\ call.crit.date_from = "2024-01-02"
    /\ call.crit.date_to = "2024-01-02"
    /\ Len(ret.out.value) = 1
    /\ HasTimestamp(ret.out.value[1])
    /\ ret.out.value[1].timestamp.day = 2
    /\ \E i \in 1..Len(call.events) :
         /\ HasTimestamp(call.events[i])
         /\ call.events[i].timestamp.day = 3
         /\ KeepEvent(call.events[i], WithoutDates)

\* A call of get_timeline that got past the registry and school tests.
TimelineRan ==
    /\ call.op = "get_timeline"
    /\ _sessions # <<>>
    /\ call.school = NoSchool \/ Has(_sessions, call.school)

\* the tool returned the JSON text of a list
TimelineReturned == TimelineRan /\ "json" \in DOMAIN ret.out

\* session id's own sorted survivors under the criteria of the call
SessionSurvivors(id) ==
    SortNewestFirst(Survivors(call.backend[id].events, TimelineCriteria(call.args)))

\* session id's fetch failed: the backend raised, or the sort did
SessionFailed(id) ==
    \/ call.backend[id].raise
    \/ SortRaises(Survivors(call.backend[id].events, TimelineCriteria(call.args)))

\* session id's own slice [offset, offset+limit) as the merge holds it
SessionSlice(id) ==
    LET page == SubSeq(SessionSurvivors(id), call.args.offset + 1,
                       Min(call.args.offset + call.args.limit, Len(SessionSurvivors(id)))) IN
    IF SessionFailed(id) THEN <<>>
    ELSE [k \in 1..Len(page) |->
            [src |-> id, n |-> _lean_timeline_event(page[k]),
             school |-> IF Len(Targeted) > 1 THEN id ELSE Absent]]

\* the slices of the sessions ids, one after the other
RECURSIVE ConcatSlices(_)
ConcatSlices(ids) ==
    IF ids = <<>> THEN <<>>
    ELSE SessionSlice(Head(ids)) \o ConcatSlices(Tail(ids))

LoginSucceededFor(id) ==
    \/ /\ call'.op \in {"login", "_try_env_login"}
       /\ "outs" \in DOMAIN call'
       /\ \E i \in 1..Len(SplitSubdomains(call'.raw)) :
            SplitSubdomains(call'.raw)[i] = id /\ call'.outs[i] = "ok"
    \/ /\ call'.op \in {"login_auto", "_try_env_login"}
       /\ "detected" \in DOMAIN call'
       /\ call'.out = "ok"
       /\ DetectedSubdomain(call'.detected) = id

\* C24: across any sequence of operations no registered id is ever lost, and
\* the entry of an id is added or replaced only by a step in which a backend
\* login for that id succeeded: a failed attempt leaves the entry as it was,
\* and no lookup, resolution or fan-out changes the registry, an explicit
\* school or not.
C24_RegistryChangesOnlyOnLogin ==
    [][/\ \A id \in SchoolIds : Has(_sessions, id) => Has(_sessions', id)
       /\ \A id \in SchoolIds :
            (/\ Has(_sessions', id)
             /\ ~Has(_sessions, id) \/ Get(_sessions', id) # Get(_sessions, id))
            => LoginSucceededFor(id)
       /\ call'.op \notin {"login", "login_auto", "_try_env_login"}
          => _sessions' = _sessions]_vars

\* a login that failed for an id whose earlier session is still registered
C24_Witness ==
    /\ call.op = "login"
    /\ "outs" \in DOMAIN call
    /\ ret.out.kind = "error"
    /\ \E i \in 1..Len(SplitSubdomains(call.raw)) :
         /\ call.outs[i] # "ok"
         /\ Has(_sessions, SplitSubdomains(call.raw)[i])

\* A call of get_timetable that reached the backend, which raised `e`.
TimetableBackendFailed(e) ==
    /\ call.op = "get_timetable"
    /\ _get_session(_sessions, call.school).kind = "ok"
    /\ \/ call.classes.raise /\ call.classes.err = e
       \/ /\ ~call.classes.raise
          /\ call.classes.classes # <<>>
          /\ call.timetable.raise
          /\ call.timetable.err = e

\* the reply is a structured error with this hint
ErrorWithHint(hint) ==
    /\ "error" \in DOMAIN ret.out
    /\ "hint" \in DOMAIN ret.out
    /\ ret.out.hint = hint

\* C25: when a backend call made for a tool fails with an error whose kind has
\* an entry in the hint table, the structured error returned carries the hint
\* of that kind, for a tool that calls one session directly (get_timetable)
\* and for a tool that goes through the fan-out (get_timeline, when the reply
\* is an error: the hint is that of a kind a session failed with).
C25_BackendErrorCarriesItsHint ==
    /\ \A e \in FetchErrors \cap DOMAIN _ERROR_HINTS :
         TimetableBackendFailed(e) => ErrorWithHint(_ERROR_HINTS[e])
    /\ (/\ TimelineRan
        /\ "error" \in DOMAIN ret.out
        /\ \A i \in 1..Len(Targeted) :
             /\ call.backend[Targeted[i]].raise
             /\ call.backend[Targeted[i]].err \in DOMAIN _ERROR_HINTS)
       => \E i \in 1..Len(Targeted) :
            ErrorWithHint(_ERROR_HINTS[call.backend[Targeted[i]].err])

\* A call of send_message that got past the registry and school tests.
SendRan ==
    /\ call.op = "send_message"
    /\ _sessions # <<>>
    /\ call.school = NoSchool \/ Has(_sessions, call.school)

\* the people of the searched sessions, as (session, name, position) records
SearchedPeople ==
    UNION {Range(AllPeople(Targeted[i], call.backend[Targeted[i]])) :
           i \in 1..Len(Targeted)}

\* the recipient names of the call, blanks stripped
RecipientNames == {StripBlanks(call.recipients[i]) : i \in 1..Len(call.recipients)}

\* the people a send call delivered to
Delivered == UNION {Range(ret.calls[i].people) : i \in 1..Len(ret.calls)}

\* the searched people whose name is r, case ignored
NamedExactly(r) == {p \in SearchedPeople : Lower(p.name) = Lower(r)}

\* the searched people whose name contains r, case ignored
NamedLike(r) ==
    {p \in SearchedPeople :
       \E a \in 0..(Len(p.name) - Len(r)) :
         Lower(SubSeq(p.name, a + 1, a + Len(r))) = Lower(r)}

\* C26: send_message delivers only to people whose name is a recipient name
\* exactly: a recipient that is only part of a person's name sends nothing to
\* that person, and a recipient that matches several people does not have one
\* of them picked without notice.
C26_ExactRecipientsOnly ==
    SendRan
    => \A p \in Delivered :
         \E r \in RecipientNames : NamedExactly(r) = {p}

\* the recipient names that match nobody, or people of more than one school
Unresolvable ==
    {r \in RecipientNames :
       \/ NamedLike(r) = {}
       \/ Cardinality({p.sub : p \in NamedLike(r)}) > 1}

\* C28: send_message validates every recipient before it sends anything: if
\* a recipient name matches no person, or people of more than one school, no
\* edu.send_message call is made and the reply is an error.
C28_ValidatedBeforeSend ==
    SendRan /\ Unresolvable # {}
    => /\ ret.calls = <<>>
       /\ "error" \in DOMAIN ret.out

\* the first recipient is a teacher of the searched school, the second is
\* nobody's name: nothing is sent
C28_Witness ==
    /\ SendRan
    /\ Len(call.recipients) = 2
    /\ Cardinality(NamedLike(StripBlanks(call.recipients[1]))) = 1
    /\ NamedLike(StripBlanks(call.recipients[2])) = {}
    /\ ret.calls = <<>>
    /\ "error" \in DOMAIN ret.out

\* the searched sessions whose student listing raises on every call
ListingDown == SelectSeq(Targeted, LAMBDA id : call.backend[id].listing = "down")

\* the searched sessions whose first listing returns and in which the name
\* resolves
ResolvingListedIds ==
    SelectSeq(Targeted, LAMBDA id : call.backend[id].listing # "down" /\ ResolvesIn(id))

\* C29: with no explicit school, a backend failure while the students of one
\* session are listed does not end the resolution: a student that resolves
\* in exactly one other registered session is still returned, with that
\* session.
C29_ListingFailureSkipsSession ==
    (/\ ResolveRan
     /\ call.school = NoSchool
     /\ ListingDown # <<>>
     /\ Len(ResolvingListedIds) = 1)
    => /\ ret.out.kind = "ok"
       /\ ret.out.edu = _sessions[Rank(ResolvingListedIds[1])].edu

\* the registries that hold the sessions of _sessions in another order
Reorderings ==
    LET n == Len(_sessions) IN
    {[i \in 1..n |-> _sessions[p[i]]] :
       p \in {q \in [1..n -> 1..n] : \A i, j \in 1..n : q[i] = q[j] => i = j}}

\* what the last resolver call gives on the registry r
OutcomeOn(r) ==
    _resolve_student_across_sessions(r, call.backend, call.name, call.school).out

\* C30: the outcome of _resolve_student_across_sessions does not depend on
\* the order in which the sessions were registered: on every registry that
\* holds the same sessions with the same students in another order the call
\* gives the same kind of outcome and, when it resolves, the same session and
\* the same student.
C30_RegistrationOrderIrrelevant ==
    (ResolveRan /\ call.school = NoSchool)
    => \A r \in Reorderings :
         /\ OutcomeOn(r).kind = ret.out.kind
         /\ ret.out.kind = "ok"
            => /\ OutcomeOn(r).edu = ret.out.edu
               /\ OutcomeOn(r).student = ret.out.student

\* three sessions; the name resolves in the one registered last only, and
\* the one registered first has a student of another name
C30_Witness ==
    /\ ResolveRan
    /\ call.school = NoSchool
    /\ Len(Targeted) = 3
    /\ StudentsOf(Targeted[1]) # <<>>
    /\ ~ResolvesIn(Targeted[1])
    /\ ~ResolvesIn(Targeted[2])
    /\ ResolvesIn(Targeted[3])
    /\ ret.out.kind = "ok"
    /\ ret.out.edu = _sessions[3].edu

====
